---- MODULE Spec2Model ----
(***************************************************************************)
(* Playback coordination of wavesurfer-react-player:                       *)
(*   - AudioPlayerProvider (context/AudioPlayerContext.tsx): the shared    *)
(*     session that owns one HTMLAudioElement, the fade-in interval, the   *)
(*     persisted volume and the MINI_PLAYER_PLAY_EVENT broadcast;          *)
(*   - WaveformPlayer in standalone mode (components/WaveformPlayer.tsx):  *)
(*     one private audio element per widget, coordinated only through the  *)
(*     broadcast.                                                          *)
(* Volumes are integers in units of 1/VolScale, so that every one of the   *)
(* FADE_STEPS ramp values of a volume on the 0.1 grid is a whole number.   *)
(* Every handler runs to completion before the next one starts (one        *)
(* JavaScript task), and React state updates are applied before the next   *)
(* handler is called.                                                      *)
(* The promise of audio.play() settles at any later time, whatever was     *)
(* called on the element in between: the code assumes nothing about it.    *)
(* Assigning audio.src runs the element's load algorithm, which leaves the *)
(* element paused without a 'pause' event.                                 *)
(* The intervals the window runs are counted, so that an interval the      *)
(* session no longer holds would show.                                     *)
(* Each specification bounds how many calls may await the source at once.  *)
(* After every handler React renders the consumers of the context: the     *)
(* context-mode WaveformPlayers and the MiniPlayer move their WaveSurfer   *)
(* cursors and the MiniPlayer shows or hides itself, in the same step.     *)
(* Once the provider has unmounted, React drops its state updates.         *)
(* useLazyLoad (hooks/useLazyLoad.ts) and formatTime (utils/formatTime.ts) *)
(* are modelled beside the player, which they do not touch.                *)
(* The specifications share the actions:                                   *)
(*   FadeSpec     the session with fade-in enabled;                        *)
(*   RampSpec     the fading session started by play(track) only;          *)
(*   RaceSpec     the fading session with two calls awaiting the source;   *)
(*   WidgetSpec   the standalone widgets with their positions;             *)
(*   HookSpec     the components that call useAudioPlayer();               *)
(*   StopSpec     the fading session with the element's time reports;      *)
(*   CallbackSpec the session with the lifecycle callbacks supplied;       *)
(*   EventSpec    the same session with what the element reports;          *)
(*   ToggleSpec   the same session driven by togglePlay();                 *)
(*   DisposeSpec  the fading session whose provider may unmount;           *)
(*   StoreSpec    the session over its volume store, constructed anew;     *)
(*   SessionSpec  the session with fade-in disabled, every configuration   *)
(*                and every operation, position and duration included;     *)
(*   PageSpec     the session together with the standalone widgets;        *)
(*   WaveSpec     the session with its waveforms, seeks included;          *)
(*   ClickSpec    the session with clicks on every kind of waveform;       *)
(*   MiniSpec     the session with the MiniPlayer and its close button;    *)
(*   MuteSpec     the fading session with the MiniPlayer's mute button;    *)
(*   LazySpec     a host of useLazyLoad() and its IntersectionObserver;    *)
(*   FormatSpec   a component that shows formatTime(seconds).              *)
(***************************************************************************)
EXTENDS Integers, Sequences, FiniteSets, TLC

\* ------------------------------------------------------------------ bounds
MaxPending == 1      \* play() promises that may await the source at once
MaxRacing == 2       \* the same, where calls race for the source
MaxEvents == 2       \* source events queued and not yet delivered
MaxTime == 2         \* length of every track, in seconds
NumWidgets == 2      \* standalone WaveformPlayers on the page
MaxEntries == 2      \* IntersectionObserverEntries queued by one observer
MaxStale == 1        \* queues that disconnected observers still hold
MaxHalves == 260     \* the longest short duration formatted, in half seconds

\* --------------------------------------------------------------- constants
FADE_STEPS == 30
VolScale == FADE_STEPS * 10
MIN_FADE_IN_VOLUME == VolScale \div 10
\* DEFAULT_CONFIG.fadeInDuration, in milliseconds
DefaultFadeInDuration == 3000

Null == "null"
Songs == {"a", "b"}
Widgets == 1..NumWidgets

Min(x, y) == IF x <= y THEN x ELSE y
Max(x, y) == IF x >= y THEN x ELSE y

\* Song.audioUrl and Song.duration of the two tracks; "b" has no duration.
AudioUrl(song) == IF song = "a" THEN "a.mp3" ELSE "b.mp3"
SongDuration(song) == IF song = "a" THEN MaxTime ELSE 0

\* a JavaScript number: NaN, or a volume in units of 1/VolScale
NaN == [nan |-> TRUE, val |-> 0]
Num(v) == [nan |-> FALSE, val |-> v]

\* ------------------------------------------------------------------ inputs
VolumeInputs ==
  {Num(-(VolScale \div 2)), Num((8 * VolScale) \div 10), Num((3 * VolScale) \div 2), NaN}
DefaultVolumes == {VolScale, (3 * VolScale) \div 2}
StoredValues == {Null, "abc", "0.5"}
\* a store whose setItem throws (quota exceeded) and that holds nothing
WriteFails == "QuotaExceededError"
\* what else a store may hold when a page loads
StoreContents == StoredValues \cup {"", "1.5", "0.5abc", WriteFails}
SeekInputs == {-1, 1, MaxTime + 1}
\* the standalone widget whose waveform is clicked (they all show the same track)
ClickedWidgets == {1}
\* durations of an hour and more that are formatted, in seconds
LongDurations == {3600, 3661, 7325}
\* the options a host passes to useLazyLoad(); threshold in tenths
RootMargins == {"100px", "200px"}
Thresholds == {0, 5}
\* the volume a user moves the slider to while calls race for the source
RaceVolumes == {Num((8 * VolScale) \div 10)}

VARIABLES
  config,          \* fadeInEnabled, fadeInDuration, persistVolume, defaultVolume, callbacks
  state,           \* AudioPlayerState of the provider
  audio,           \* the provider's HTMLAudioElement: src, paused, volume
  fadeIntervalRef, \* the fade interval with its closure (currentStep, targetVolume)
  intervals,       \* how many intervals set by fadeInVolume the window still runs
  playPromises,    \* continuations of play()/togglePlay() awaiting audio.play()
  audioEvents,     \* 'play' / 'pause' / 'ended' events queued by the element
  localStorage,    \* the string stored under config.storageKey, or Null
  wSong,           \* song.id of each standalone widget
  localIsPlaying,  \* localIsPlaying of each standalone widget
  localAudio,      \* each widget's private audio element: src, paused, currentTime
  consumer,        \* what useAudioPlayer() gave the component that called it last
  waves,           \* the WaveSurfer of each context-mode WaveformPlayer, by song.id
  mini,            \* the MiniPlayer: whether it renders, and its WaveSurfer
  disposed,        \* the provider has unmounted: the cleanup of its mount effect ran
  lazy,            \* a component that calls useLazyLoad(), with its IntersectionObserver
  label,           \* the number of seconds a component shows, and formatTime's text of it
  history,         \* the last completed fade, pause / resume round trip or stop()
  calls            \* what the last handler called: config callbacks, dispatchEvent

vars == <<config, state, audio, fadeIntervalRef, intervals, playPromises, audioEvents,
          localStorage, wSong, localIsPlaying, localAudio, consumer, waves, mini,
          disposed, lazy, label, history, calls>>

sessionVars ==
  <<state, audio, fadeIntervalRef, intervals, playPromises, audioEvents, localStorage>>
widgetVars == <<localIsPlaying, localAudio, consumer>>
utilityVars == <<lazy, label>>

\* ------------------------------------------------------------- VolumeStore
\* parseFloat on the strings the store may hold: the longest numeric prefix
ParseFloat(str) ==
  CASE str = "0" -> Num(0)
    [] str = "0.5" -> Num(VolScale \div 2)
    [] str = "0.5abc" -> Num(VolScale \div 2)
    [] str = "0.8" -> Num((8 * VolScale) \div 10)
    [] str = "1" -> Num(VolScale)
    [] str = "1.5" -> Num((3 * VolScale) \div 2)
    [] OTHER -> NaN

\* Number.prototype.toString on the clamped volumes the model produces
VolumeToString(v) ==
  CASE v = 0 -> "0"
    [] v = VolScale \div 2 -> "0.5"
    [] v = (8 * VolScale) \div 10 -> "0.8"
    [] v = VolScale -> "1"
    [] OTHER -> "other"

\* localStorage.getItem(config.storageKey)
GetItem(store) == IF store = WriteFails THEN Null ELSE store

\* the saved volume the mount effect accepts (found), or none
NotLoaded == [found |-> FALSE, val |-> 0]

LoadedVolume_anyNumber(cfg, saved) ==
  IF cfg.persistVolume /\ saved # Null /\ saved # ""
  THEN LET vol == ParseFloat(saved)
       IN IF ~vol.nan THEN [found |-> TRUE, val |-> vol.val] ELSE NotLoaded
  ELSE NotLoaded

LoadedVolume_positiveOnly(cfg, saved) ==
  IF cfg.persistVolume /\ saved # Null /\ saved # ""
  THEN LET vol == ParseFloat(saved)
       IN IF ~vol.nan /\ vol.val > 0 /\ vol.val <= VolScale
          THEN [found |-> TRUE, val |-> vol.val]
          ELSE NotLoaded
  ELSE NotLoaded

LoadedVolume(cfg, saved) ==
  IF cfg.persistVolume /\ saved # Null /\ saved # ""
  THEN LET vol == ParseFloat(saved)
       IN IF ~vol.nan /\ vol.val >= 0 /\ vol.val <= VolScale
          THEN [found |-> TRUE, val |-> vol.val]
          ELSE NotLoaded
  ELSE NotLoaded

\* -------------------------------------------------------------- the source
NoTimer == [live |-> FALSE, delay |-> 0, currentStep |-> 0, targetVolume |-> 0]

ClearFade_refOnly(ref, n) == n

\* clearFade(): clearInterval on the interval the ref holds, if it holds one (the
\* ref itself becomes null); n counts the intervals the window runs
ClearFade(ref, n) == IF ref.live THEN n - 1 ELSE n

\* setInterval(...) of fadeInVolume: one more interval runs
SetInterval(n) == n + 1

\* HTMLMediaElement.volume rejects values outside [0, 1] with an exception
VolumeAccepted(v) == v >= 0 /\ v <= VolScale

\* audio.pause(): a playing element becomes paused and queues 'pause'
PausedAudio(a) == [a EXCEPT !.paused = TRUE]
PauseEvents(a, q) == IF a.paused THEN q ELSE Append(q, "pause")

\* audio.src = url: the element's load algorithm drops what it was playing and
\* leaves it paused, without a 'pause' event
LoadedAudio(a, url) == [a EXCEPT !.src = url, !.paused = TRUE]

\* audio.play() that the platform allows: the element plays and queues 'play'
PlayingAudio(a) == [a EXCEPT !.paused = FALSE]
PlayEvents(a, q) == IF a.paused THEN Append(q, "play") ELSE q

\* --------------------------------------------------------------- broadcast
\* handleOtherPlayerPlay of every mounted standalone widget, run synchronously
\* by window.dispatchEvent(new CustomEvent(MINI_PLAYER_PLAY_EVENT, {detail}))
OtherPlayerPlayAudio_rewinds(detail, la) ==
  [w \in Widgets |-> IF detail # wSong[w]
                     THEN [la[w] EXCEPT !.paused = TRUE, !.currentTime = 0]
                     ELSE la[w]]

OtherPlayerPlayAudio(detail, la) ==
  [w \in Widgets |-> IF detail # wSong[w] THEN [la[w] EXCEPT !.paused = TRUE] ELSE la[w]]

OtherPlayerPlayFlag(detail, lp) ==
  [w \in Widgets |-> IF detail # wSong[w] THEN FALSE ELSE lp[w]]

dispatchEvent(detail) ==
  /\ localAudio' = OtherPlayerPlayAudio(detail, localAudio)
  /\ localIsPlaying' = OtherPlayerPlayFlag(detail, localIsPlaying)

\* ------------------------------------------------------------ useAudioPlayer
\* createContext<AudioPlayerContextValue | null>(null): outside a provider
\* useContext gives null
NoSession ==
  [currentSong |-> Null, isPlaying |-> FALSE, currentTime |-> 0, duration |-> 0,
   volume |-> 0, displayVolume |-> 0, isFadingIn |-> FALSE]

NoContext == [given |-> FALSE, session |-> NoSession]

HookMessage == "useAudioPlayer must be used within an AudioPlayerProvider"

NotRendered == [threw |-> FALSE, message |-> "", value |-> NoContext]

useAudioPlayer_unchecked(context) ==
  [threw |-> FALSE, message |-> "", value |-> context]

\* useAudioPlayer(): throws when the context is null, returns it otherwise
useAudioPlayer(context) ==
  IF context = NoContext
  THEN [threw |-> TRUE, message |-> HookMessage, value |-> NoContext]
  ELSE [threw |-> FALSE, message |-> "", value |-> context]

\* ------------------------------------------------------------- visualizers
\* Song.peaks: track a comes with its peaks; the waveform of b is decoded from
\* its audio, whose real length is MaxTime like that of every track
HasPeaks(song) == song = "a"

\* relevantCurrentTime / waveDuration, as a fraction
Progress(time, waveDuration) == [num |-> time, den |-> waveDuration]

\* Math.min(progress, 1)
MinOne(progress) ==
  IF progress.num > progress.den THEN [num |-> 1, den |-> 1] ELSE progress

\* WaveSurfer.create(...): a new instance shows its cursor at the start
NewWave(song, waveDuration) ==
  [song |-> song, duration |-> waveDuration, cursor |-> Progress(0, 1)]

\* getDuration() of the instance a WaveformPlayer creates for its song
WaveDuration(song) == IF HasPeaks(song) THEN SongDuration(song) ELSE MaxTime

\* the body of the progress sync effect: seekTo(Math.min(progress, 1)) when
\* waveDuration > 0 and the time is not negative
Synced(wave, time) ==
  IF wave.duration > 0 /\ time >= 0
  THEN [wave EXCEPT !.cursor = MinOne(Progress(time, wave.duration))]
  ELSE wave

\* the effects of a context-mode WaveformPlayer after a render, s being the
\* session it rendered before and t the session it renders now: a change of
\* isThisSongPlaying destroys the instance and creates a new one; otherwise a
\* change of currentTime syncs the instance of the current track
WaveformRendered(wave, s, t) ==
  LET was == s.currentSong = wave.song
      is == t.currentSong = wave.song
  IN IF was # is
     THEN NewWave(wave.song, wave.duration)
     ELSE IF is /\ t.currentTime # s.currentTime
          THEN Synced(wave, t.currentTime)
          ELSE wave

\* no MiniPlayer on the page
NoMini ==
  [mounted |-> FALSE, rendered |-> FALSE, song |-> Null, duration |-> 0,
   cursor |-> Progress(0, 1)]

\* a MiniPlayer that has rendered nothing yet: lastSongIdRef and wavesurferRef null
EmptyMini == [NoMini EXCEPT !.mounted = TRUE]

\* duration: currentSong.duration || duration || 0 with peaks, the decoded length
\* without
MiniDuration(t) ==
  IF HasPeaks(t.currentSong)
  THEN (IF SongDuration(t.currentSong) # 0 THEN SongDuration(t.currentSong) ELSE t.duration)
  ELSE MaxTime

MiniShown_whilePlaying(t) == t.isPlaying

\* `if (!currentSong) return null`
MiniShown(t) == t.currentSong # Null

\* the MiniPlayer after a render: a new instance when the track is another one
\* than lastSongIdRef's, then the sync effect when currentTime changed
MiniRendered(m, s, t) ==
  IF ~m.mounted
  THEN m
  ELSE LET m1 == IF t.currentSong # Null /\ t.currentSong # m.song
                 THEN [m EXCEPT !.song = t.currentSong, !.duration = MiniDuration(t),
                                !.cursor = Progress(0, 1)]
                 ELSE m
           m2 == IF m1.song # Null /\ t.currentTime # s.currentTime
                 THEN Synced(m1, t.currentTime)
                 ELSE m1
       IN [m2 EXCEPT !.rendered = MiniShown(t)]

\* React renders the consumers of the context after a handler has run, and
\* runs the effects whose dependencies changed
Rendered ==
  /\ waves' = [v \in DOMAIN waves |-> WaveformRendered(waves[v], state, state')]
  /\ mini' = MiniRendered(mini, state, state')
  /\ UNCHANGED utilityVars

\* a page without context-mode WaveformPlayers and without a MiniPlayer
NoWaves == [v \in {} |-> NewWave(v, 0)]

\* ------------------------------------------------------------ useLazyLoad
\* UseLazyLoadOptions with the defaults of the destructuring applied
LazyOptions == [rootMargin : RootMargins, threshold : Thresholds, forceVisible : BOOLEAN]

\* the effect created no observer: forceVisible, or ref.current is null
NoObserver ==
  [live |-> FALSE, connected |-> FALSE, rootMargin |-> "", threshold |-> 0,
   observed |-> FALSE, wasIntersecting |-> FALSE, entries |-> <<>>]

\* new IntersectionObserver(callback, {rootMargin, threshold}) followed by
\* observer.observe(ref.current); entries holds isIntersecting of each queued entry
NewObserver(options) ==
  [live |-> TRUE, connected |-> TRUE, rootMargin |-> options.rootMargin,
   threshold |-> options.threshold, observed |-> FALSE, wasIntersecting |-> FALSE,
   entries |-> <<>>]

\* observer.disconnect()
Disconnect(observer) == [observer EXCEPT !.connected = FALSE]

\* setIsVisible(v); React drops it once the host has unmounted
SetIsVisible(l, v) == IF l.mounted THEN [l EXCEPT !.isVisible = v] ELSE l

\* a plausible slip: isVisible follows the entry
Callback_tracksEntry(isVisible, observer, entries) ==
  [isVisible |-> entries[1],
   observer |-> IF entries[1] THEN Disconnect(observer) ELSE observer]

\* the observer's callback `([entry]) => {...}`: it reads the first entry of
\* the batch; what isVisible is set to, and the observer it may disconnect
Callback(isVisible, observer, entries) ==
  IF entries[1]
  THEN [isVisible |-> TRUE, observer |-> Disconnect(observer)]
  ELSE [isVisible |-> isVisible, observer |-> observer]

\* the body of the effect, run after mount and whenever rootMargin, threshold
\* or forceVisible changed
Effect(l) ==
  IF l.options.forceVisible THEN [SetIsVisible(l, TRUE) EXCEPT !.observer = NoObserver]
  ELSE IF ~l.attached THEN [l EXCEPT !.observer = NoObserver]
  ELSE [l EXCEPT !.observer = NewObserver(l.options)]

\* the effect's cleanup `() => observer.disconnect()`, which exists only when
\* the effect created an observer; disconnect() leaves the entries the observer
\* has queued, and the platform may still deliver them (keep) or not
Cleanup(l, keep) ==
  IF ~l.observer.live THEN l
  ELSE [l EXCEPT !.observer = [Disconnect(@) EXCEPT !.entries = <<>>],
                 !.stale = IF keep /\ l.observer.entries # <<>>
                           THEN @ \cup {l.observer.entries}
                           ELSE @]

\* useLazyLoad(options) of a host that has mounted: useState(forceVisible), then
\* the effect; attached is whether the host put the ref on an element, inView
\* whether that element intersects the root
useLazyLoad(options, attached, inView) ==
  Effect([mounted |-> TRUE, options |-> options, attached |-> attached,
          isVisible |-> options.forceVisible, observer |-> NoObserver,
          stale |-> {}, inView |-> inView])

\* no component calls useLazyLoad()
NoLazy ==
  [mounted |-> FALSE,
   options |-> [rootMargin |-> "100px", threshold |-> 0, forceVisible |-> FALSE],
   attached |-> FALSE,
   isVisible |-> FALSE, observer |-> NoObserver, stale |-> {}, inView |-> FALSE]

\* nothing but the hook's host changes
LazyStep(l) ==
  /\ lazy' = l
  /\ UNCHANGED <<config, disposed, sessionVars, wSong, widgetVars, waves, mini, label,
                 history, calls>>

\* the page scrolls: the element enters or leaves the root's (margined) box
scroll ==
  /\ lazy.attached
  /\ LazyStep([lazy EXCEPT !.inView = ~@])

\* the platform's "update intersection observations" step: a connected observer
\* queues an entry on its first look and whenever isIntersecting changed
updateObservations ==
  /\ lazy.observer.connected
  /\ ~lazy.observer.observed \/ lazy.observer.wasIntersecting # lazy.inView
  /\ Len(lazy.observer.entries) < MaxEntries
  /\ LazyStep([lazy EXCEPT !.observer.entries = Append(@, lazy.inView),
                           !.observer.observed = TRUE,
                           !.observer.wasIntersecting = lazy.inView])

\* the platform takes the observer's queue and calls the callback with it
notify ==
  /\ lazy.observer.live
  /\ lazy.observer.entries # <<>>
  /\ LET r == Callback(lazy.isVisible, [lazy.observer EXCEPT !.entries = <<>>],
                       lazy.observer.entries)
     IN LazyStep([SetIsVisible(lazy, r.isVisible) EXCEPT !.observer = r.observer])

\* the platform delivers what an observer of an earlier effect run had queued:
\* the callback of that run, whose observer is no longer the hook's
staleNotify(entries) ==
  /\ entries \in lazy.stale
  /\ LET r == Callback(lazy.isVisible, NoObserver, entries)
     IN LazyStep([SetIsVisible(lazy, r.isVisible) EXCEPT !.stale = @ \ {entries}])

\* the host renders with other options: the cleanup of the last effect run,
\* then the effect again
rerender(options, keep) ==
  /\ lazy.mounted
  /\ options # lazy.options
  /\ keep => Cardinality(lazy.stale) < MaxStale
  /\ LazyStep(Effect([Cleanup(lazy, keep) EXCEPT !.options = options]))

\* the host unmounts: the cleanup of the last effect run
unmountLazy(keep) ==
  /\ lazy.mounted
  /\ keep => Cardinality(lazy.stale) < MaxStale
  /\ LazyStep([Cleanup(lazy, keep) EXCEPT !.mounted = FALSE])

\* ------------------------------------------------------------- formatTime
\* JavaScript numbers as formatTime meets them: NaN, the two infinities, and
\* the finite ones on a grid of half seconds
NotANumber == [kind |-> "nan", halves |-> 0]
PosInfinity == [kind |-> "inf", halves |-> 0]
NegInfinity == [kind |-> "-inf", halves |-> 0]
Halves(h) == [kind |-> "finite", halves |-> h]

TimeInputs ==
  {NotANumber, PosInfinity, NegInfinity}
    \cup {Halves(h) : h \in (-MaxHalves)..MaxHalves}
    \cup {Halves(2 * d + f) : d \in LongDurations, f \in {0, 1}}

\* !seconds || isNaN(seconds) || seconds < 0
Rejected(seconds) ==
  \/ seconds.kind = "nan"
  \/ seconds.kind = "finite" /\ seconds.halves = 0
  \/ seconds.kind = "-inf"
  \/ seconds.kind = "finite" /\ seconds.halves < 0

\* Math.floor(seconds / 60) of a number that is not Rejected
FloorMinutes(seconds) ==
  IF seconds.kind = "inf" THEN PosInfinity ELSE Halves(2 * (seconds.halves \div 120))

\* Math.floor(seconds % 60) of a number that is not Rejected; Infinity % 60 is NaN
FloorSeconds(seconds) ==
  IF seconds.kind = "inf" THEN NotANumber ELSE Halves(2 * ((seconds.halves % 120) \div 2))

\* the decimal digits of a whole number that is not negative
RECURSIVE Decimal(_)
Decimal(n) ==
  LET digit == <<"0", "1", "2", "3", "4", "5", "6", "7", "8", "9">>[(n % 10) + 1]
  IN IF n < 10 THEN digit ELSE Decimal(n \div 10) \o digit

\* Number.prototype.toString of NaN, Infinity or a whole number that is not negative
NumberToString(x) ==
  CASE x.kind = "nan" -> "NaN"
    [] x.kind = "inf" -> "Infinity"
    [] x.kind = "finite" -> Decimal(x.halves \div 2)

\* String.prototype.padStart with a filler of one character
RECURSIVE PadStart(_, _, _)
PadStart(str, targetLength, fill) ==
  IF Len(str) >= targetLength THEN str ELSE PadStart(fill \o str, targetLength, fill)

\* a plausible slip: the minutes of the hour instead of the total minutes
formatTime_wrapsHours(seconds) ==
  IF Rejected(seconds) THEN "0:00"
  ELSE LET total == FloorMinutes(seconds)
           mins == IF total.kind = "finite" THEN Halves(total.halves % 120) ELSE total
       IN NumberToString(mins) \o ":"
            \o PadStart(NumberToString(FloorSeconds(seconds)), 2, "0")

formatTime(seconds) ==
  IF Rejected(seconds) THEN "0:00"
  ELSE NumberToString(FloorMinutes(seconds)) \o ":"
         \o PadStart(NumberToString(FloorSeconds(seconds)), 2, "0")

\* a component that shows formatTime(seconds)
Shown(seconds) == [seconds |-> seconds, text |-> formatTime(seconds)]
NoLabel == Shown(Halves(0))

\* the component, handed a number of seconds, renders for the first time
renderLabel ==
  /\ label.text = ""
  /\ label' = Shown(label.seconds)
  /\ UNCHANGED <<config, disposed, sessionVars, wSong, widgetVars, waves, mini, lazy,
                 history, calls>>

\* the component renders with another number of seconds
show(seconds) ==
  /\ label.text # ""
  /\ label' = Shown(seconds)
  /\ UNCHANGED <<config, disposed, sessionVars, wSong, widgetVars, waves, mini, lazy,
                 history, calls>>

\* ------------------------------------------------------------------- Init
InitialState(cfg, saved) ==
  LET vol == LoadedVolume(cfg, saved)
      v == IF vol.found THEN vol.val ELSE cfg.defaultVolume
  IN [currentSong |-> Null, isPlaying |-> FALSE, currentTime |-> 0, duration |-> 0,
      volume |-> v, displayVolume |-> v, isFadingIn |-> FALSE]

\* new Audio() has volume 1; the mount effect overwrites it with a loaded value
InitialAudio(cfg, saved) ==
  LET vol == LoadedVolume(cfg, saved)
  IN [src |-> "", paused |-> TRUE, volume |-> IF vol.found THEN vol.val ELSE VolScale]

NoHistory == [phase |-> "none", before |-> 0, faded |-> FALSE]
Constructed == [phase |-> "mounted", before |-> 0, faded |-> FALSE]

\* what is the same in every specification once config, store and songs are chosen
Mounted ==
  /\ state = InitialState(config, GetItem(localStorage))
  /\ audio = InitialAudio(config, GetItem(localStorage))
  /\ fadeIntervalRef = NoTimer
  /\ intervals = 0
  /\ playPromises = <<>>
  /\ audioEvents = <<>>
  /\ localIsPlaying = [w \in Widgets |-> FALSE]
  /\ consumer = NotRendered
  /\ disposed = FALSE
  /\ localAudio = [w \in Widgets |-> [src |-> "", paused |-> TRUE, currentTime |-> 0]]
  /\ calls = <<>>

\* the page is loaded anew: a fresh provider is constructed over the same store
reload ==
  /\ state' = InitialState(config, GetItem(localStorage))
  /\ audio' = InitialAudio(config, GetItem(localStorage))
  /\ fadeIntervalRef' = NoTimer
  /\ intervals' = ClearFade(fadeIntervalRef, intervals)
  /\ playPromises' = <<>>
  /\ audioEvents' = <<>>
  /\ localIsPlaying' = [w \in Widgets |-> FALSE]
  /\ consumer' = NotRendered
  /\ localAudio' = [w \in Widgets |-> [src |-> "", paused |-> TRUE, currentTime |-> 0]]
  /\ history' = Constructed
  /\ calls' = <<>>
  /\ disposed' = FALSE
  /\ UNCHANGED <<config, localStorage, wSong>>
  /\ Rendered

\* ------------------------------------------------------- provider: helpers
\* The callbacks of DEFAULT_CONFIG do nothing; a config with callbacks supplies
\* onPlay, onPause, onEnd and onTimeUpdate, and listens to the broadcast.
Recorded(seq) == IF config.callbacks THEN seq ELSE <<>>

\* setState(...): React drops the update of a component that has unmounted
SetState(s) == IF disposed THEN state ELSE s

\* one call with the track it is given: the Song of onPlay, the detail of the
\* broadcast; Null for a call that is given no track
Call(name, arg) == [name |-> name, arg |-> arg]

LoadedState_keepsTime(s, song) ==
  IF s.currentSong # song
  THEN [s EXCEPT !.currentSong = song, !.duration = SongDuration(song)]
  ELSE s

\* state after `if (state.currentSong?.id !== song.id) { ... setState(...) }`
LoadedState(s, song) ==
  IF s.currentSong # song
  THEN [s EXCEPT !.currentSong = song, !.currentTime = 0, !.duration = SongDuration(song)]
  ELSE s

\* const targetVolume = Math.max(state.volume, MIN_FADE_IN_VOLUME) of play()
TargetVolume(s) == Max(s.volume, MIN_FADE_IN_VOLUME)

\* the same line of togglePlay()
ResumeTargetVolume(s) == Max(s.volume, MIN_FADE_IN_VOLUME)

\* the volume play() puts on the element before audio.play()
InitialPlayVolume(cfg, target) == IF cfg.fadeInEnabled THEN 0 ELSE target

\* ------------------------------------------------------- provider: actions
\* play(song); `allowed` is the platform's decision on audio.play()
play(song, allowed) ==
  LET target == TargetVolume(state)
      v0 == InitialPlayVolume(config, target)
      a1 == IF state.currentSong # song THEN LoadedAudio(audio, AudioUrl(song)) ELSE audio
  IN /\ Len(audioEvents) < MaxEvents
     /\ fadeIntervalRef' = NoTimer
     /\ intervals' = ClearFade(fadeIntervalRef, intervals)
     /\ state' = LoadedState(state, song)
     /\ IF ~VolumeAccepted(v0)
        THEN \* the assignment to audio.volume throws: play() ends here
             /\ audio' = a1
             /\ UNCHANGED <<playPromises, audioEvents>>
        ELSE LET a2 == [a1 EXCEPT !.volume = v0]
             IN IF allowed
                THEN /\ audio' = PlayingAudio(a2)
                     /\ audioEvents' = PlayEvents(a2, audioEvents)
                     /\ playPromises' = Append(playPromises,
                           [kind |-> "play", song |-> song, targetVolume |-> target])
                ELSE /\ audio' = a2
                     /\ UNCHANGED <<playPromises, audioEvents>>
     /\ history' = NoHistory
     /\ calls' = <<>>
     /\ UNCHANGED <<config, disposed, localStorage, wSong, widgetVars>>
     /\ Rendered

\* fadeInVolume(targetVolume): the state and the interval it installs
FadingState(s) == [s EXCEPT !.isFadingIn = TRUE, !.displayVolume = 0]
NewTimer(target) ==
  [live |-> TRUE, delay |-> config.fadeInDuration \div FADE_STEPS,
   currentStep |-> 0, targetVolume |-> target]

ConfirmedCalls_staleTrack(cfg, p) ==
  <<Call("dispatchEvent", p.song)>>
    \o (IF cfg.fadeInEnabled THEN <<Call("fadeInVolume", Null)>> ELSE <<>>)
    \o (IF p.kind = "play" THEN <<Call("onPlay", state.currentSong)>> ELSE <<>>)

ConfirmedCalls_onPlayFirst(cfg, p) ==
  (IF p.kind = "play" THEN <<Call("onPlay", p.song)>> ELSE <<>>)
    \o <<Call("dispatchEvent", p.song)>>
    \o (IF cfg.fadeInEnabled THEN <<Call("fadeInVolume", Null)>> ELSE <<>>)

\* what the continuation of play() / togglePlay() calls, in its order
ConfirmedCalls(cfg, p) ==
  <<Call("dispatchEvent", p.song)>>
    \o (IF cfg.fadeInEnabled THEN <<Call("fadeInVolume", Null)>> ELSE <<>>)
    \o (IF p.kind = "play" THEN <<Call("onPlay", p.song)>> ELSE <<>>)

\* audio.play() resolved: the continuation of the oldest pending call runs
playConfirmed ==
  /\ playPromises # <<>>
  /\ LET p == Head(playPromises)
     IN /\ dispatchEvent(p.song)
        /\ IF config.fadeInEnabled
           THEN /\ state' = SetState(FadingState(state))
                /\ fadeIntervalRef' = NewTimer(p.targetVolume)
                /\ intervals' = SetInterval(ClearFade(fadeIntervalRef, intervals))
           ELSE UNCHANGED <<state, fadeIntervalRef, intervals>>
        /\ history' = IF history.phase = "resuming" /\ p.kind = "toggle" /\ Len(playPromises) = 1
                     THEN [history EXCEPT !.phase = IF config.fadeInEnabled THEN "fading"
                                                   ELSE "settled"]
                     ELSE NoHistory
  /\ playPromises' = Tail(playPromises)
  /\ calls' = Recorded(ConfirmedCalls(config, Head(playPromises)))
  /\ UNCHANGED <<config, disposed, audio, audioEvents, localStorage, wSong, consumer>>
  /\ Rendered

\* audio.play() rejected (autoplay restriction, aborted load): catch {} runs
playRejected ==
  /\ playPromises # <<>>
  /\ playPromises' = Tail(playPromises)
  /\ history' = NoHistory
  /\ calls' = <<>>
  /\ UNCHANGED <<config, disposed, state, audio, fadeIntervalRef, intervals, audioEvents, localStorage,
                 wSong, widgetVars>>
  /\ Rendered

pauseBody ==
  /\ fadeIntervalRef' = NoTimer
  /\ intervals' = ClearFade(fadeIntervalRef, intervals)
  /\ audio' = PausedAudio(audio)
  /\ audioEvents' = PauseEvents(audio, audioEvents)
  /\ calls' = Recorded(<<Call("onPause", Null)>>)
  /\ UNCHANGED <<config, disposed, state, playPromises, localStorage, wSong, widgetVars>>
  /\ Rendered

pause ==
  /\ Len(audioEvents) < MaxEvents
  /\ pauseBody
  /\ history' = NoHistory

ResumeAudio_reloads(cfg, a) ==
  LoadedAudio(IF cfg.fadeInEnabled THEN [a EXCEPT !.volume = 0] ELSE a, a.src)

\* the element after the resume branch of togglePlay() has set its volume
ResumeAudio(cfg, a) == IF cfg.fadeInEnabled THEN [a EXCEPT !.volume = 0] ELSE a

togglePlay(allowed) ==
  /\ Len(audioEvents) < MaxEvents
  /\ IF state.currentSong = Null
     THEN /\ calls' = <<>>
          /\ UNCHANGED <<config, disposed, sessionVars, wSong, widgetVars, history>>
          /\ Rendered
     ELSE IF state.isPlaying
          THEN /\ pauseBody
               /\ history' = [phase |-> "paused", before |-> state.displayVolume,
                               faded |-> /\ history.phase \in {"fadedIn", "settled"}
                                         /\ ~state.isFadingIn]
          ELSE LET target == ResumeTargetVolume(state)
                   a1 == ResumeAudio(config, audio)
               IN /\ IF allowed
                     THEN /\ audio' = PlayingAudio(a1)
                          /\ audioEvents' = PlayEvents(a1, audioEvents)
                          /\ playPromises' = Append(playPromises,
                                [kind |-> "toggle", song |-> state.currentSong,
                                 targetVolume |-> target])
                     ELSE /\ audio' = a1
                          /\ UNCHANGED <<playPromises, audioEvents>>
                  /\ history' = IF history.phase = "paused" /\ allowed
                               THEN [history EXCEPT !.phase = "resuming"]
                               ELSE NoHistory
                  /\ calls' = <<>>
                  /\ UNCHANGED <<config, disposed, state, fadeIntervalRef, intervals, localStorage,
                                 wSong, widgetVars>>
                  /\ Rendered

seek(time) ==
  /\ state' = [state EXCEPT !.currentTime = time]
  /\ history' = NoHistory
  /\ calls' = <<>>
  /\ UNCHANGED <<config, disposed, audio, fadeIntervalRef, intervals, playPromises, audioEvents,
                 localStorage, wSong, widgetVars>>
  /\ Rendered

\* Math.max(0, Math.min(1, volume)): NaN when volume is NaN
Clamp01(volume) == IF volume.nan THEN NaN ELSE Num(Max(0, Min(VolScale, volume.val)))

\* state after the two setState calls of setVolume
VolumeState(s, timerLive, clampedVolume) ==
  [s EXCEPT !.isFadingIn = IF timerLive THEN FALSE ELSE @,
            !.volume = clampedVolume,
            !.displayVolume = clampedVolume]

setVolume(volume) ==
  LET clampedVolume == Clamp01(volume)
  IN /\ fadeIntervalRef' = NoTimer
     /\ intervals' = ClearFade(fadeIntervalRef, intervals)
     /\ IF clampedVolume.nan
        THEN \* audio.volume = NaN throws a TypeError: only the fade was cancelled
             /\ state' = [state EXCEPT !.isFadingIn = IF fadeIntervalRef.live THEN FALSE ELSE @]
             /\ UNCHANGED <<audio, localStorage>>
        ELSE /\ audio' = [audio EXCEPT !.volume = clampedVolume.val]
             /\ IF config.persistVolume /\ localStorage = WriteFails
                THEN \* localStorage.setItem throws: the last setState never runs
                     /\ state' = [state EXCEPT
                                    !.isFadingIn = IF fadeIntervalRef.live THEN FALSE ELSE @]
                     /\ UNCHANGED localStorage
                ELSE /\ localStorage' = IF config.persistVolume
                                        THEN VolumeToString(clampedVolume.val)
                                        ELSE localStorage
                     /\ state' = VolumeState(state, fadeIntervalRef.live, clampedVolume.val)
     /\ history' = NoHistory
     /\ calls' = <<>>
     /\ UNCHANGED <<config, disposed, playPromises, audioEvents, wSong, widgetVars>>
     /\ Rendered

StoppedState_keepsFading(s) ==
  [s EXCEPT !.currentSong = Null, !.isPlaying = FALSE, !.currentTime = 0,
            !.duration = 0]

\* state after the setState call of stop()
StoppedState(s) ==
  [s EXCEPT !.currentSong = Null, !.isPlaying = FALSE, !.currentTime = 0,
            !.duration = 0, !.isFadingIn = FALSE]

\* the element after audio.pause(); audio.currentTime = 0; audio.src = ''
StoppedAudio(a) == [PausedAudio(a) EXCEPT !.src = ""]

stopBody ==
  /\ Len(audioEvents) < MaxEvents
  /\ fadeIntervalRef' = NoTimer
  /\ intervals' = ClearFade(fadeIntervalRef, intervals)
  /\ audio' = StoppedAudio(audio)
  /\ audioEvents' = PauseEvents(audio, audioEvents)
  /\ state' = StoppedState(state)
  /\ history' = IF fadeIntervalRef.live
                THEN [phase |-> "stoppedInFade", before |-> state.currentTime,
                      faded |-> FALSE]
                ELSE NoHistory
  /\ UNCHANGED <<config, disposed, playPromises, localStorage, wSong, widgetVars>>
  /\ Rendered

stop ==
  /\ stopBody
  /\ calls' = <<>>

StepVolume_late(targetVolume, currentStep) ==
  Min((targetVolume * (currentStep - 1)) \div FADE_STEPS, targetVolume)

\* Math.min(volumeStep * currentStep, targetVolume), volumeStep = targetVolume / FADE_STEPS
StepVolume(targetVolume, currentStep) ==
  Min((targetVolume * currentStep) \div FADE_STEPS, targetVolume)

\* state after the last step: isFadingIn: false, displayVolume: targetVolume
FadedState(s, targetVolume) ==
  [s EXCEPT !.isFadingIn = FALSE, !.displayVolume = targetVolume]

\* one run of the setInterval callback of fadeInVolume
fadeTick ==
  /\ fadeIntervalRef.live
  /\ LET currentStep == Min(fadeIntervalRef.currentStep + 1, FADE_STEPS)
         target == fadeIntervalRef.targetVolume
         newVolume == StepVolume(target, currentStep)
     IN IF ~VolumeAccepted(newVolume)
        THEN \* audio.volume = newVolume throws; only the step counter advanced
             /\ fadeIntervalRef' = [fadeIntervalRef EXCEPT !.currentStep = currentStep]
             /\ UNCHANGED intervals
             /\ UNCHANGED <<state, audio, history>>
        ELSE /\ audio' = [audio EXCEPT !.volume = newVolume]
             /\ IF currentStep >= FADE_STEPS
                THEN /\ fadeIntervalRef' = NoTimer
                     /\ intervals' = ClearFade(fadeIntervalRef, intervals)
                     /\ state' = SetState(FadedState(state, target))
                     /\ history' = CASE history.phase = "fading" ->
                                         [history EXCEPT !.phase = "settled"]
                                    [] history.phase = "none" ->
                                         [history EXCEPT !.phase = "fadedIn"]
                                    [] OTHER -> history
                ELSE /\ fadeIntervalRef' = [fadeIntervalRef EXCEPT !.currentStep = currentStep]
                     /\ UNCHANGED intervals
                     /\ state' = SetState([state EXCEPT !.displayVolume = newVolume])
                     /\ UNCHANGED history
  /\ calls' = <<>>
  /\ UNCHANGED <<config, disposed, playPromises, audioEvents, localStorage, wSong, widgetVars>>
  /\ Rendered

\* 'timeupdate': the element reports position t of the loaded, playing track
handleTimeUpdate(t) ==
  /\ audio.src # ""
  /\ ~audio.paused
  /\ state' = [state EXCEPT !.currentTime = t]
  /\ calls' = Recorded(<<Call("onTimeUpdate", Null)>>)
  /\ UNCHANGED <<config, disposed, audio, fadeIntervalRef, intervals, playPromises, audioEvents,
                 localStorage, wSong, widgetVars, history>>
  /\ Rendered

\* 'loadedmetadata': the element reports the real length of the loaded track
handleLoadedMetadata ==
  /\ audio.src # ""
  /\ state' = [state EXCEPT !.duration = MaxTime]
  /\ calls' = <<>>
  /\ UNCHANGED <<config, disposed, audio, fadeIntervalRef, intervals, playPromises, audioEvents,
                 localStorage, wSong, widgetVars, history>>
  /\ Rendered

\* the playing track reaches its end: the element pauses and queues 'pause', 'ended'
sourceEnded ==
  /\ audio.src # ""
  /\ ~audio.paused
  /\ Len(audioEvents) + 2 <= MaxEvents
  /\ audio' = PausedAudio(audio)
  /\ audioEvents' = audioEvents \o <<"pause", "ended">>
  /\ history' = NoHistory
  /\ calls' = <<>>
  /\ UNCHANGED <<config, disposed, state, fadeIntervalRef, intervals, playPromises, localStorage,
                 wSong, widgetVars>>
  /\ Rendered

EventState_endedKeepsTime(s, ev) ==
  CASE ev = "play" -> [s EXCEPT !.isPlaying = TRUE]
    [] ev = "pause" -> [s EXCEPT !.isPlaying = FALSE]
    [] ev = "ended" -> [s EXCEPT !.isPlaying = FALSE]

\* handlePlay / handlePause / handleEnded on the oldest queued event
EventState(s, ev) ==
  CASE ev = "play" -> [s EXCEPT !.isPlaying = TRUE]
    [] ev = "pause" -> [s EXCEPT !.isPlaying = FALSE]
    [] ev = "ended" -> [s EXCEPT !.isPlaying = FALSE, !.currentTime = 0]

deliverEvent ==
  /\ audioEvents # <<>>
  /\ state' = EventState(state, Head(audioEvents))
  /\ audioEvents' = Tail(audioEvents)
  /\ calls' = Recorded(IF Head(audioEvents) = "ended" THEN <<Call("onEnd", Null)>> ELSE <<>>)
  /\ UNCHANGED <<config, disposed, audio, fadeIntervalRef, intervals, playPromises, localStorage,
                 wSong, widgetVars, history>>
  /\ Rendered

\* the element after the cleanup's audio.pause(); audio.src = ''
DisposedAudio(a) == [PausedAudio(a) EXCEPT !.src = ""]

\* the provider unmounts: the cleanup of the mount effect clears the interval the
\* ref holds, removes the five listeners (what the element reports from now on
\* reaches no handler), pauses the element and releases its locator
dispose ==
  /\ ~disposed
  /\ disposed' = TRUE
  /\ fadeIntervalRef' = NoTimer
  /\ intervals' = ClearFade(fadeIntervalRef, intervals)
  /\ audioEvents' = <<>>
  /\ audio' = DisposedAudio(audio)
  /\ history' = NoHistory
  /\ calls' = <<>>
  /\ UNCHANGED <<config, state, playPromises, localStorage, wSong, widgetVars>>
  /\ UNCHANGED <<waves, mini, utilityVars>>

\* ----------------------------------------------------- standalone widgets
\* the widget's element after `if (src !== song.audioUrl) src = song.audioUrl`
\* and play(): a new locator rewinds, and so does a start at the end of the track
StartedAudio(a, url, allowed) ==
  [src |-> url,
   paused |-> IF allowed THEN FALSE ELSE a.paused,
   currentTime |-> IF a.src # url \/ (allowed /\ a.currentTime = MaxTime)
                   THEN 0 ELSE a.currentTime]

\* handlePlayClick of widget w in standalone mode
handlePlayClick(w, allowed) ==
  /\ IF localIsPlaying[w]
     THEN /\ localAudio' = [localAudio EXCEPT ![w].paused = TRUE]
          /\ localIsPlaying' = [localIsPlaying EXCEPT ![w] = FALSE]
     ELSE LET la == OtherPlayerPlayAudio(wSong[w], localAudio)
              lp == OtherPlayerPlayFlag(wSong[w], localIsPlaying)
          IN /\ localAudio' = [la EXCEPT ![w] = StartedAudio(@, AudioUrl(wSong[w]), allowed)]
             /\ localIsPlaying' = [lp EXCEPT ![w] = TRUE]
  /\ calls' = Recorded(IF localIsPlaying[w] THEN <<>> ELSE <<Call("dispatchEvent", wSong[w])>>)
  /\ UNCHANGED <<config, disposed, sessionVars, wSong, consumer, history>>
  /\ Rendered

\* 'ended' of widget w's element
widgetEnded(w) ==
  /\ localAudio[w].src # ""
  /\ ~localAudio[w].paused
  /\ localAudio' = [localAudio EXCEPT ![w].paused = TRUE, ![w].currentTime = MaxTime]
  /\ localIsPlaying' = [localIsPlaying EXCEPT ![w] = FALSE]
  /\ calls' = <<>>
  /\ UNCHANGED <<config, disposed, sessionVars, wSong, consumer, history>>
  /\ Rendered

\* 'timeupdate' of widget w's element: it plays and has reached position t
widgetTimeUpdate(w, t) ==
  /\ localAudio[w].src # ""
  /\ ~localAudio[w].paused
  /\ localAudio' = [localAudio EXCEPT ![w].currentTime = t]
  /\ calls' = <<>>
  /\ UNCHANGED <<config, disposed, sessionVars, wSong, localIsPlaying, consumer, history>>
  /\ Rendered

\* ----------------------------------------------------------- interactions
Forwards_always(song, s) == TRUE

\* isThisSongPlaying of a context-mode WaveformPlayer: currentSong?.id === song.id
Forwards(song, s) == s.currentSong = song

\* `interact: true`: a click at newTime moves the instance's own cursor there
\* before it reports the 'interaction'
Clicked(wave, newTime) == [wave EXCEPT !.cursor = Progress(newTime, wave.duration)]

\* the 'interaction' handler of the context-mode WaveformPlayer of song v:
\* contextSeek(newTime) when its song is the current one, nothing otherwise
interaction(v, newTime) ==
  /\ waves[v].duration > 0
  /\ newTime <= waves[v].duration
  /\ state' = IF Forwards(v, state) THEN [state EXCEPT !.currentTime = newTime] ELSE state
  /\ waves' = [u \in DOMAIN waves |->
                 WaveformRendered(IF u = v THEN Clicked(waves[u], newTime) ELSE waves[u],
                                  state, state')]
  /\ mini' = MiniRendered(mini, state, state')
  /\ history' = IF Forwards(v, state) THEN NoHistory ELSE history
  /\ calls' = IF Forwards(v, state) THEN <<Call("seek", Null)>> ELSE <<>>
  /\ UNCHANGED <<config, disposed, audio, fadeIntervalRef, intervals, playPromises,
                 audioEvents, localStorage, wSong, widgetVars, utilityVars>>

\* the 'interaction' handler of the MiniPlayer, whose waveform shows the
\* current track: seek(newTime)
miniInteraction(newTime) ==
  /\ mini.rendered
  /\ mini.song = state.currentSong
  /\ mini.duration > 0
  /\ newTime <= mini.duration
  /\ state' = [state EXCEPT !.currentTime = newTime]
  /\ waves' = [u \in DOMAIN waves |-> WaveformRendered(waves[u], state, state')]
  /\ mini' = MiniRendered(Clicked(mini, newTime), state, state')
  /\ history' = NoHistory
  /\ calls' = <<Call("seek", Null)>>
  /\ UNCHANGED <<config, disposed, audio, fadeIntervalRef, intervals, playPromises,
                 audioEvents, localStorage, wSong, widgetVars, utilityVars>>

\* the 'interaction' handler of standalone widget w: its own element's position
\* (and localCurrentTime) become newTime
widgetInteraction(w, newTime) ==
  /\ localAudio' = [localAudio EXCEPT ![w].currentTime = newTime]
  /\ calls' = <<>>
  /\ UNCHANGED <<config, disposed, sessionVars, wSong, localIsPlaying, consumer, history>>
  /\ Rendered

\* -------------------------------------------------------------- MiniPlayer
\* handleClose of the MiniPlayer's close button: stop(); onClose?.()
handleClose ==
  /\ mini.rendered
  /\ stopBody
  /\ calls' = <<Call("stop", Null), Call("onClose", Null)>>

\* the argument of the mute button's onClick: displayVolume > 0 ? 0 : 1
MuteTarget(s) == IF s.displayVolume > 0 THEN Num(0) ELSE Num(VolScale)

\* the mute button's onClick: setVolume(displayVolume > 0 ? 0 : 1)
clickMute ==
  /\ mini.rendered
  /\ setVolume(MuteTarget(state))

\* ------------------------------------------------------------- consumers
\* the context value a provider hands down: its state (and its operations)
ContextValue == [given |-> TRUE, session |-> state]

\* a component that calls useAudioPlayer() renders, inside the provider or not
renderConsumer(inside) ==
  /\ consumer' = useAudioPlayer(IF inside THEN ContextValue ELSE NoContext)
  /\ calls' = <<>>
  /\ UNCHANGED <<config, disposed, sessionVars, wSong, localIsPlaying, localAudio, history>>
  /\ Rendered

\* --------------------------------------------------------- specifications
\* fewer than n calls of play() / togglePlay() await the source: a specification
\* lets no further call in until one of them is settled
Awaiting(n) == Len(playPromises) < n

\* The session with fade-in enabled.  seek, 'timeupdate' and 'loadedmetadata'
\* write only currentTime and duration, which no handler reads.
FadeInit ==
  /\ config = [fadeInEnabled |-> TRUE, fadeInDuration |-> DefaultFadeInDuration,
               persistVolume |-> FALSE, defaultVolume |-> VolScale, callbacks |-> FALSE]
  /\ localStorage = Null
  /\ wSong = [w \in Widgets |-> "a"]
  /\ Mounted
  /\ waves = NoWaves
  /\ mini = NoMini
  /\ lazy = NoLazy
  /\ label = NoLabel
  /\ history = NoHistory

FadeNext ==
  \/ Awaiting(MaxPending) /\ \E song \in Songs, allowed \in BOOLEAN : play(song, allowed)
  \/ playConfirmed
  \/ playRejected
  \/ pause
  \/ Awaiting(MaxPending) /\ \E allowed \in BOOLEAN : togglePlay(allowed)
  \/ \E volume \in VolumeInputs : setVolume(volume)
  \/ stop
  \/ fadeTick
  \/ sourceEnded
  \/ deliverEvent

FadeSpec == FadeInit /\ [][FadeNext]_vars

\* The fading session driven by play(track) alone: every fade is a fresh one.
RampNext ==
  \/ Awaiting(MaxPending) /\ \E song \in Songs, allowed \in BOOLEAN : play(song, allowed)
  \/ playConfirmed
  \/ playRejected
  \/ pause
  \/ \E volume \in VolumeInputs : setVolume(volume)
  \/ stop
  \/ fadeTick
  \/ sourceEnded
  \/ deliverEvent

RampSpec == FadeInit /\ [][RampNext]_vars

\* The fading session in which two calls may await the source at once.
RaceNext ==
  \/ Awaiting(MaxRacing) /\ \E song \in Songs, allowed \in BOOLEAN : play(song, allowed)
  \/ Awaiting(MaxRacing) /\ \E allowed \in BOOLEAN : togglePlay(allowed)
  \/ playConfirmed
  \/ playRejected
  \/ pause
  \/ \E volume \in RaceVolumes : setVolume(volume)
  \/ stop
  \/ fadeTick
  \/ deliverEvent

RaceSpec == FadeInit /\ [][RaceNext]_vars

\* The fading session at the default volume, with the element's time reports.
StopNext ==
  \/ Awaiting(MaxPending) /\ \E song \in Songs, allowed \in BOOLEAN : play(song, allowed)
  \/ playConfirmed
  \/ playRejected
  \/ pause
  \/ Awaiting(MaxPending) /\ \E allowed \in BOOLEAN : togglePlay(allowed)
  \/ stop
  \/ fadeTick
  \/ \E t \in 0..MaxTime : handleTimeUpdate(t)
  \/ handleLoadedMetadata
  \/ sourceEnded
  \/ deliverEvent

StopSpec == FadeInit /\ [][StopNext]_vars

\* The session of an application that supplies the lifecycle callbacks.
CallbackInit ==
  /\ config \in [fadeInEnabled : BOOLEAN, fadeInDuration : {DefaultFadeInDuration},
                 persistVolume : {FALSE}, defaultVolume : {VolScale}, callbacks : {TRUE}]
  /\ localStorage = Null
  /\ wSong = [w \in Widgets |-> "a"]
  /\ Mounted
  /\ waves = NoWaves
  /\ mini = NoMini
  /\ lazy = NoLazy
  /\ label = NoLabel
  /\ history = NoHistory

CallbackNext ==
  \/ Awaiting(MaxPending) /\ \E song \in Songs, allowed \in BOOLEAN : play(song, allowed)
  \/ playConfirmed
  \/ playRejected
  \/ pause
  \/ Awaiting(MaxPending) /\ \E allowed \in BOOLEAN : togglePlay(allowed)
  \/ stop
  \/ fadeTick
  \/ \E t \in 0..MaxTime : handleTimeUpdate(t)
  \/ sourceEnded
  \/ deliverEvent

CallbackSpec == CallbackInit /\ [][CallbackNext]_vars

\* The session with its callbacks and everything its source reports: position,
\* metadata and the end of the track.
EventNext ==
  \/ Awaiting(MaxPending) /\ \E song \in Songs, allowed \in BOOLEAN : play(song, allowed)
  \/ playConfirmed
  \/ playRejected
  \/ stop
  \/ fadeTick
  \/ \E t \in 0..MaxTime : handleTimeUpdate(t)
  \/ handleLoadedMetadata
  \/ sourceEnded
  \/ deliverEvent

EventSpec == CallbackInit /\ [][EventNext]_vars

\* The session with its callbacks, driven through togglePlay() from every state
\* play, pause and stop leave it in.
ToggleNext ==
  \/ Awaiting(MaxPending) /\ \E allowed \in BOOLEAN : togglePlay(allowed)
  \/ Awaiting(MaxPending) /\ \E song \in Songs, allowed \in BOOLEAN : play(song, allowed)
  \/ playConfirmed
  \/ playRejected
  \/ pause
  \/ stop
  \/ fadeTick
  \/ deliverEvent

ToggleSpec == CallbackInit /\ [][ToggleNext]_vars

\* The fading session up to and after its disposal: once the provider has
\* unmounted no component calls its operations, while the fade interval and
\* the promises of audio.play() may still run their callbacks.
DisposeNext ==
  \/ ~disposed /\ Awaiting(MaxPending)
       /\ \E song \in Songs, allowed \in BOOLEAN : play(song, allowed)
  \/ ~disposed /\ Awaiting(MaxPending) /\ \E allowed \in BOOLEAN : togglePlay(allowed)
  \/ ~disposed /\ pause
  \/ ~disposed /\ stop
  \/ dispose
  \/ playConfirmed
  \/ playRejected
  \/ fadeTick
  \/ deliverEvent

DisposeSpec == FadeInit /\ [][DisposeNext]_vars

\* The session over every store a page load may find, and its reloads.
StoreInit ==
  /\ config \in [fadeInEnabled : {FALSE}, fadeInDuration : {DefaultFadeInDuration},
                 persistVolume : BOOLEAN, callbacks : {FALSE},
                 defaultVolume : DefaultVolumes]
  /\ localStorage \in StoreContents
  /\ wSong = [w \in Widgets |-> "a"]
  /\ Mounted
  /\ waves = NoWaves
  /\ mini = NoMini
  /\ lazy = NoLazy
  /\ label = NoLabel
  /\ history = Constructed

StoreNext ==
  \/ \E volume \in VolumeInputs : setVolume(volume)
  \/ reload
  \/ Awaiting(MaxPending) /\ \E song \in Songs, allowed \in BOOLEAN : play(song, allowed)
  \/ playConfirmed
  \/ playRejected
  \/ pause
  \/ stop
  \/ deliverEvent

StoreSpec == StoreInit /\ [][StoreNext]_vars

\* The session with fade-in disabled, in every configuration.
SessionInit ==
  /\ config \in [fadeInEnabled : {FALSE}, fadeInDuration : {DefaultFadeInDuration},
                 persistVolume : BOOLEAN, callbacks : {FALSE},
                 defaultVolume : DefaultVolumes]
  /\ localStorage \in StoredValues
  /\ wSong = [w \in Widgets |-> "a"]
  /\ Mounted
  /\ waves = NoWaves
  /\ mini = NoMini
  /\ lazy = NoLazy
  /\ label = NoLabel
  /\ history = NoHistory

SessionNext ==
  \/ Awaiting(MaxPending) /\ \E song \in Songs, allowed \in BOOLEAN : play(song, allowed)
  \/ playConfirmed
  \/ playRejected
  \/ pause
  \/ Awaiting(MaxPending) /\ \E allowed \in BOOLEAN : togglePlay(allowed)
  \/ \E time \in SeekInputs : seek(time)
  \/ \E volume \in VolumeInputs : setVolume(volume)
  \/ stop
  \/ \E t \in 0..MaxTime : handleTimeUpdate(t)
  \/ handleLoadedMetadata
  \/ sourceEnded
  \/ deliverEvent

SessionSpec == SessionInit /\ [][SessionNext]_vars

\* The session and the standalone widgets of one page.
PageInit ==
  /\ config = [fadeInEnabled |-> FALSE, fadeInDuration |-> DefaultFadeInDuration,
               persistVolume |-> FALSE, defaultVolume |-> VolScale, callbacks |-> FALSE]
  /\ localStorage = Null
  /\ wSong \in [Widgets -> Songs]
  /\ Mounted
  /\ waves = NoWaves
  /\ mini = NoMini
  /\ lazy = NoLazy
  /\ label = NoLabel
  /\ history = NoHistory

PageNext ==
  \/ Awaiting(MaxPending) /\ \E song \in Songs, allowed \in BOOLEAN : play(song, allowed)
  \/ playConfirmed
  \/ playRejected
  \/ pause
  \/ Awaiting(MaxPending) /\ \E allowed \in BOOLEAN : togglePlay(allowed)
  \/ stop
  \/ sourceEnded
  \/ deliverEvent
  \/ \E w \in Widgets, allowed \in BOOLEAN : handlePlayClick(w, allowed)
  \/ \E w \in Widgets : widgetEnded(w)

PageSpec == PageInit /\ [][PageNext]_vars

\* The standalone widgets with their positions, and the session that
\* broadcasts to them.
WidgetNext ==
  \/ Awaiting(MaxPending) /\ \E song \in Songs, allowed \in BOOLEAN : play(song, allowed)
  \/ playConfirmed
  \/ \E w \in Widgets, allowed \in BOOLEAN : handlePlayClick(w, allowed)
  \/ \E w \in Widgets : widgetEnded(w)
  \/ \E w \in Widgets, t \in 0..MaxTime : widgetTimeUpdate(w, t)

WidgetSpec == PageInit /\ [][WidgetNext]_vars

\* The session with a context-mode WaveformPlayer for each track and the
\* MiniPlayer.
WaveInit ==
  /\ config = [fadeInEnabled |-> FALSE, fadeInDuration |-> DefaultFadeInDuration,
               persistVolume |-> FALSE, defaultVolume |-> VolScale, callbacks |-> FALSE]
  /\ localStorage = Null
  /\ wSong = [w \in Widgets |-> "a"]
  /\ Mounted
  /\ waves = [v \in Songs |-> NewWave(v, WaveDuration(v))]
  /\ mini = EmptyMini
  /\ lazy = NoLazy
  /\ label = NoLabel
  /\ history = NoHistory

WaveNext ==
  \/ Awaiting(MaxPending) /\ \E song \in Songs, allowed \in BOOLEAN : play(song, allowed)
  \/ playConfirmed
  \/ stop
  \/ \E time \in SeekInputs : seek(time)
  \/ \E t \in 0..MaxTime : handleTimeUpdate(t)
  \/ deliverEvent
  \/ \E v \in Songs, newTime \in 0..MaxTime : interaction(v, newTime)
  \/ \E newTime \in 0..MaxTime : miniInteraction(newTime)

\* the waveforms as the session's position moves them and as they are clicked
WaveSpec == WaveInit /\ [][WaveNext]_vars

ClickNext ==
  \/ Awaiting(MaxPending) /\ \E song \in Songs, allowed \in BOOLEAN : play(song, allowed)
  \/ playConfirmed
  \/ stop
  \/ deliverEvent
  \/ \E v \in Songs, newTime \in 0..MaxTime : interaction(v, newTime)
  \/ \E newTime \in 0..MaxTime : miniInteraction(newTime)
  \/ \E w \in ClickedWidgets, newTime \in 0..MaxTime : widgetInteraction(w, newTime)

\* the waveforms of the page, those of the standalone widgets included, as
\* they are clicked
ClickSpec == WaveInit /\ [][ClickNext]_vars

\* The session, with fade-in or without, under a page that shows the MiniPlayer
\* with its close control.
MiniInit ==
  /\ config \in [fadeInEnabled : BOOLEAN, fadeInDuration : {DefaultFadeInDuration},
                 persistVolume : {FALSE}, defaultVolume : {VolScale}, callbacks : {FALSE}]
  /\ localStorage = Null
  /\ wSong = [w \in Widgets |-> "a"]
  /\ Mounted
  /\ waves = NoWaves
  /\ mini = EmptyMini
  /\ lazy = NoLazy
  /\ label = NoLabel
  /\ history = NoHistory

MiniNext ==
  \/ Awaiting(MaxPending) /\ \E song \in Songs, allowed \in BOOLEAN : play(song, allowed)
  \/ playConfirmed
  \/ playRejected
  \/ Awaiting(MaxPending) /\ \E allowed \in BOOLEAN : togglePlay(allowed)
  \/ handleClose
  \/ fadeTick
  \/ \E t \in 0..MaxTime : handleTimeUpdate(t)
  \/ handleLoadedMetadata
  \/ deliverEvent

MiniSpec == MiniInit /\ [][MiniNext]_vars

\* The fading session under a page that shows the MiniPlayer with its volume
\* control.
MuteNext ==
  \/ Awaiting(MaxPending) /\ \E song \in Songs, allowed \in BOOLEAN : play(song, allowed)
  \/ playConfirmed
  \/ playRejected
  \/ pause
  \/ clickMute
  \/ \E volume \in RaceVolumes : setVolume(volume)
  \/ fadeTick
  \/ deliverEvent

MuteInit ==
  /\ config = [fadeInEnabled |-> TRUE, fadeInDuration |-> DefaultFadeInDuration,
               persistVolume |-> FALSE, defaultVolume |-> VolScale, callbacks |-> FALSE]
  /\ localStorage = Null
  /\ wSong = [w \in Widgets |-> "a"]
  /\ Mounted
  /\ waves = NoWaves
  /\ mini = EmptyMini
  /\ lazy = NoLazy
  /\ label = NoLabel
  /\ history = NoHistory

MuteSpec == MuteInit /\ [][MuteNext]_vars

\* The session without fade and the components that ask for it, inside and
\* outside the provider.
HookNext ==
  \/ \E inside \in BOOLEAN : renderConsumer(inside)
  \/ Awaiting(MaxPending) /\ \E song \in Songs, allowed \in BOOLEAN : play(song, allowed)
  \/ playConfirmed
  \/ playRejected
  \/ pause
  \/ stop
  \/ deliverEvent

HookSpec == PageInit /\ [][HookNext]_vars

\* a host of useLazyLoad() on a page whose player is idle
LazyInit ==
  /\ config = [fadeInEnabled |-> FALSE, fadeInDuration |-> DefaultFadeInDuration,
               persistVolume |-> FALSE, defaultVolume |-> VolScale, callbacks |-> FALSE]
  /\ localStorage = Null
  /\ wSong = [w \in Widgets |-> "a"]
  /\ Mounted
  /\ waves = NoWaves
  /\ mini = NoMini
  /\ lazy \in {useLazyLoad(options, attached, inView) :
                 options \in LazyOptions, attached \in BOOLEAN, inView \in BOOLEAN}
  /\ label = NoLabel
  /\ history = NoHistory

LazyNext ==
  \/ scroll
  \/ updateObservations
  \/ notify
  \/ \E entries \in lazy.stale : staleNotify(entries)
  \/ \E options \in LazyOptions, keep \in BOOLEAN : rerender(options, keep)
  \/ \E keep \in BOOLEAN : unmountLazy(keep)

LazySpec == LazyInit /\ [][LazyNext]_vars

\* a component that shows a formatted time on a page whose player is idle
FormatInit ==
  /\ config = [fadeInEnabled |-> FALSE, fadeInDuration |-> DefaultFadeInDuration,
               persistVolume |-> FALSE, defaultVolume |-> VolScale, callbacks |-> FALSE]
  /\ localStorage = Null
  /\ wSong = [w \in Widgets |-> "a"]
  /\ Mounted
  /\ waves = NoWaves
  /\ mini = NoMini
  /\ lazy = NoLazy
  /\ label \in {[seconds |-> seconds, text |-> ""] : seconds \in TimeInputs}
  /\ history = NoHistory

FormatNext ==
  \/ renderLabel
  \/ \E seconds \in TimeInputs : show(seconds)

FormatSpec == FormatInit /\ [][FormatNext]_vars

\* ------------------------------------------------------------- properties
\* isPlaying as the session reports it once every queued source event is delivered
ReportedAfterEvents(s, q) == IF q = <<>> THEN s.isPlaying ELSE q[Len(q)] = "play"

\* the start of the session's play(track) is confirmed while its source plays
ProviderStarts ==
  /\ playPromises # <<>>
  /\ Head(playPromises).kind = "play"
  /\ Head(playPromises).song = state.currentSong
  /\ ~audio.paused
  /\ playConfirmed

\* widget w starts its track and the platform allows it
WidgetStarts(w) ==
  /\ ~localIsPlaying[w]
  /\ handlePlayClick(w, TRUE)

\* C1: when instance B's start is confirmed, B reports isPlaying = true and every
\* other instance A that holds a different track reports isPlaying = false (for
\* the session: once its queued source events are delivered).
C1_MutualExclusion ==
  [][ /\ ProviderStarts =>
           /\ ReportedAfterEvents(state', audioEvents')
           /\ \A w \in Widgets : wSong[w] # state.currentSong => ~localIsPlaying'[w]
      /\ \A w \in Widgets : WidgetStarts(w) =>
           /\ localIsPlaying'[w]
           /\ (state.currentSong \notin {Null, wSong[w]} /\ playPromises = <<>>) =>
                 ~ReportedAfterEvents(state', audioEvents')
           /\ \A u \in Widgets \ {w} : wSong[u] # wSong[w] => ~localIsPlaying'[u]
    ]_vars

\* C2: at most one standalone widget's audio element is playing, whatever songs
\* the widgets show.
C2_AtMostOnePlaying ==
  Cardinality({w \in Widgets : ~localAudio[w].paused}) <= 1

ExpectedClamp(v) == IF v < 0 THEN 0 ELSE IF v > VolScale THEN VolScale ELSE v

\* C3: setVolume(v) leaves volume = clamp(v, 0, 1), displayVolume = volume and the
\* element's volume at that value, and leaves no fade interval live.
C3_SetVolume ==
  [][ \A v \in VolumeInputs : setVolume(v) =>
        /\ ~v.nan => state'.volume = ExpectedClamp(v.val)
        /\ 0 <= state'.volume /\ state'.volume <= VolScale
        /\ state'.displayVolume = state'.volume
        /\ audio'.volume = state'.volume
        /\ ~fadeIntervalRef'.live
    ]_vars

\* C4: 0 <= volume <= 1 and 0 <= displayVolume <= 1 in every reachable state.
C4_VolumeInRange ==
  /\ 0 <= state.volume /\ state.volume <= VolScale
  /\ 0 <= state.displayVolume /\ state.displayVolume <= VolScale

\* C5: isFadingIn = false implies displayVolume = volume.
C5_DisplayIsVolume ==
  ~state.isFadingIn => state.displayVolume = state.volume

\* C6: currentSong = null implies isPlaying = false, currentTime = 0, duration = 0
\* and isFadingIn = false.
C6_EmptyState ==
  state.currentSong = Null =>
    /\ ~state.isPlaying
    /\ state.currentTime = 0
    /\ state.duration = 0
    /\ ~state.isFadingIn

\* C7: stop() results in currentSong = null, isPlaying = false, currentTime = 0,
\* duration = 0, isFadingIn = false, no fade interval, the element paused and
\* its src released.
C7_Stop ==
  [][ stop =>
        /\ state'.currentSong = Null
        /\ ~state'.isPlaying
        /\ state'.currentTime = 0
        /\ state'.duration = 0
        /\ ~state'.isFadingIn
        /\ ~fadeIntervalRef'.live
        /\ audio'.paused
        /\ audio'.src = ""
    ]_vars

\* stop() has just acted in the middle of a ramp, on a source that had reported
\* a position past 0, while another play() still awaited the source
C7_Witness ==
  /\ history.phase = "stoppedInFade"
  /\ history.before > 0
  /\ state.currentSong = Null
  /\ audio.src = ""
  /\ ~state.isFadingIn
  /\ state.displayVolume = VolScale \div FADE_STEPS
  /\ playPromises # <<>>

ExpectedTarget(volume) == IF volume >= MIN_FADE_IN_VOLUME THEN volume ELSE MIN_FADE_IN_VOLUME

ExpectedStep(k, target) == IF k >= FADE_STEPS THEN target ELSE (k * target) \div FADE_STEPS

\* C8: with fade enabled a call captures target = max(volume, FLOOR); its
\* confirmation starts the ramp at displayVolume = 0 on a timer whose period is
\* fadeInDuration / 30; the k-th timer step sets
\* the element and displayVolume to min(k * target / 30, target), never lower
\* than before and never above target; step 30 sets displayVolume = target,
\* isFadingIn = false and clears the timer.
C8_FadeRamp ==
  [][ /\ Len(playPromises') > Len(playPromises) =>
           playPromises'[Len(playPromises')].targetVolume = ExpectedTarget(state.volume)
      /\ (Len(playPromises') < Len(playPromises) /\ playConfirmed) =>
           /\ fadeIntervalRef'.live
           /\ fadeIntervalRef'.currentStep = 0
           /\ fadeIntervalRef'.delay * FADE_STEPS = config.fadeInDuration
           /\ fadeIntervalRef'.targetVolume = Head(playPromises).targetVolume
           /\ state'.displayVolume = 0
           /\ state'.isFadingIn
      /\ fadeIntervalRef'.live =>
           /\ fadeIntervalRef'.currentStep < FADE_STEPS
           /\ state'.isFadingIn
           /\ state'.displayVolume =
                 ExpectedStep(fadeIntervalRef'.currentStep, fadeIntervalRef'.targetVolume)
      /\ (/\ fadeIntervalRef.live
          /\ playPromises' = playPromises
          /\ audioEvents' = audioEvents
          /\ fadeTick) =>
           LET k == fadeIntervalRef.currentStep + 1
               target == fadeIntervalRef.targetVolume
           IN /\ audio'.volume = ExpectedStep(k, target)
              /\ state'.displayVolume = ExpectedStep(k, target)
              /\ state'.displayVolume >= state.displayVolume
              /\ state'.displayVolume <= target
              /\ k < FADE_STEPS =>
                    /\ fadeIntervalRef'.live
                    /\ fadeIntervalRef'.currentStep = k
                    /\ fadeIntervalRef'.delay = fadeIntervalRef.delay
                    /\ fadeIntervalRef'.targetVolume = target
              /\ k = FADE_STEPS =>
                    /\ state'.displayVolume = target
                    /\ ~state'.isFadingIn
                    /\ ~fadeIntervalRef'.live
    ]_vars

\* the ramp to 0.8 has taken 29 of its 30 steps
C8_Witness ==
  /\ fadeIntervalRef.live
  /\ fadeIntervalRef.currentStep = FADE_STEPS - 1
  /\ fadeIntervalRef.targetVolume = (8 * VolScale) \div 10
  /\ state.volume = (8 * VolScale) \div 10
  /\ state.displayVolume = ((FADE_STEPS - 1) * fadeIntervalRef.targetVolume) \div FADE_STEPS
  /\ audio.volume = state.displayVolume

\* C9: with fade disabled a confirmed play(track) results in isPlaying = true and
\* displayVolume = max(volume, FLOOR), and no ramp is started.
C9_PlayWithoutFade ==
  [][ (/\ ~config.fadeInEnabled
       /\ ProviderStarts
       /\ Head(playPromises).targetVolume = ExpectedTarget(state.volume)) =>
        /\ ReportedAfterEvents(state', audioEvents')
        /\ state'.displayVolume = ExpectedTarget(state'.volume)
        /\ ~state'.isFadingIn
        /\ ~fadeIntervalRef'.live
    ]_vars

\* C10: after play, togglePlay (pause), togglePlay (resume), once the resume fade
\* has settled displayVolume equals the value it had just before the pause.
C10_SameAfterResume ==
  history.phase = "settled" => state.displayVolume = history.before

\* C11: with fade enabled, a togglePlay() resume of a track that was paused after
\* its fade-in had completed never shows a restarted fade: from the pause to the
\* end of the resume isFadingIn stays false and displayVolume is not reset to 0.
C11_NoFadeRestart ==
  (history.faded /\ history.phase \in {"paused", "resuming", "fading", "settled"}) =>
    /\ ~state.isFadingIn
    /\ history.before > 0 => state.displayVolume > 0

\* C14: once every queued source event has been delivered, isPlaying tells whether
\* the shared source is playing; and only the source's events and stop() write
\* isPlaying.
C14_IsPlayingIsSource ==
  audioEvents = <<>> => (state.isPlaying = ~audio.paused)

C14_OnlyEventsWrite ==
  [][ state'.isPlaying # state.isPlaying => (deliverEvent \/ stop) ]_vars

\* the names of the calls a handler made, in their order
Names(seq) == [i \in 1..Len(seq) |-> seq[i].name]

PlayCalled == \E song \in Songs, allowed \in BOOLEAN : play(song, allowed)

\* C12: play(track) itself publishes nothing, starts no fade and calls no callback;
\* the confirmation of its start publishes the broadcast, then starts the fade
\* (when enabled), then calls onPlay; a denied start does none of the three and
\* changes nothing.
C12_PlayOrder ==
  [][ /\ PlayCalled =>
           /\ calls' = <<>>
           /\ ~fadeIntervalRef'.live
           /\ state'.displayVolume = state.displayVolume
      /\ (/\ Len(playPromises') < Len(playPromises)
          /\ Head(playPromises).kind = "play"
          /\ playConfirmed) =>
           /\ Names(calls') = IF config.fadeInEnabled
                       THEN <<"dispatchEvent", "fadeInVolume", "onPlay">>
                       ELSE <<"dispatchEvent", "onPlay">>
           /\ config.fadeInEnabled => (fadeIntervalRef'.live /\ state'.isFadingIn)
      /\ (Len(playPromises') < Len(playPromises) /\ playRejected) =>
           /\ calls' = <<>>
           /\ UNCHANGED <<state, audio, fadeIntervalRef, audioEvents, widgetVars>>
    ]_vars

\* the start of play(track) has just been confirmed on a fading session
C12_Witness ==
  /\ Names(calls) = <<"dispatchEvent", "fadeInVolume", "onPlay">>
  /\ fadeIntervalRef.live
  /\ fadeIntervalRef.currentStep = 0
  /\ state.isFadingIn
  /\ ~audio.paused

\* C19: pause() with no track loaded changes nothing and calls no callback; with
\* a track loaded it cancels the fade, pauses the source and calls onPause.
C19_Pause ==
  [][ pause =>
        IF state.currentSong = Null
        THEN /\ calls' = <<>>
             /\ UNCHANGED <<state, audio, fadeIntervalRef, audioEvents>>
        ELSE /\ ~fadeIntervalRef'.live
             /\ audio'.paused
             /\ Names(calls') = <<"onPause">>
    ]_vars

\* C13: a standalone widget whose start is denied publishes no broadcast (every
\* other widget is left as it was) and does not report isPlaying = true.
C13_WidgetStartDenied ==
  [][ \A w \in Widgets :
        (~localIsPlaying[w] /\ handlePlayClick(w, FALSE)) =>
          /\ ~localIsPlaying'[w]
          /\ \A u \in Widgets \ {w} :
                /\ localAudio'[u] = localAudio[u]
                /\ localIsPlaying'[u] = localIsPlaying[u]
    ]_vars

\* the number a stored string parses to when that number lies in [0, 1] (a float
\* parse reads the leading numeral); -1 when the value is absent, does not parse
\* as a number or lies outside the range
StoredNumber(str) ==
  CASE str = "0" -> 0
    [] str = "0.5" -> VolScale \div 2
    [] str = "0.5abc" -> VolScale \div 2
    [] str = "0.8" -> (8 * VolScale) \div 10
    [] str = "1" -> VolScale
    [] OTHER -> -1

\* C15: with persistence enabled setVolume(v) of a number v stores
\* clamp(v, 0, 1), nothing but setVolume writes the store, and a provider
\* constructed afterwards starts with volume = displayVolume = the stored value;
\* with persistence disabled setVolume leaves the store alone.
C15_PersistRoundTrip ==
  [][ /\ \A v \in VolumeInputs :
           (localStorage # WriteFails /\ setVolume(v)) =>
             IF config.persistVolume
             THEN ~v.nan => StoredNumber(localStorage') = ExpectedClamp(v.val)
             ELSE localStorage' = localStorage
      /\ localStorage' # localStorage => \E v \in VolumeInputs : setVolume(v)
      /\ (config.persistVolume /\ StoredNumber(localStorage) >= 0 /\ reload) =>
           /\ state'.volume = StoredNumber(localStorage)
           /\ state'.displayVolume = StoredNumber(localStorage)
    ]_vars

\* a provider constructed after setVolume stored 0 starts at 0, not at the default
C15_Witness ==
  /\ history.phase = "mounted"
  /\ config.persistVolume
  /\ config.defaultVolume = VolScale
  /\ localStorage = "0"
  /\ state.volume = 0
  /\ state.displayVolume = 0

\* C16: a freshly constructed provider starts at the stored value when persistence
\* is enabled and the store holds a number in [0, 1], and at config.defaultVolume
\* when the stored value is absent, not a number or out of range.
C16_ConstructionVolume ==
  history.phase = "mounted" =>
    LET n == StoredNumber(localStorage)
        expected == IF config.persistVolume /\ n >= 0 THEN n ELSE config.defaultVolume
    IN /\ state.volume = expected
       /\ state.displayVolume = expected

\* the stored "abc" is dropped and the provider starts at its configured default
C16_Witness ==
  /\ history.phase = "mounted"
  /\ config.persistVolume
  /\ localStorage = "abc"
  /\ config.defaultVolume = VolScale
  /\ state.volume = config.defaultVolume
  /\ state.displayVolume = config.defaultVolume
  /\ audio.volume = config.defaultVolume

\* C17: when the store refuses the write, setVolume(v) still leaves
\* volume = displayVolume = clamp(v, 0, 1).
C17_StoreFails ==
  [][ \A v \in VolumeInputs :
        (config.persistVolume /\ localStorage = WriteFails /\ ~v.nan /\ setVolume(v)) =>
          /\ state'.volume = ExpectedClamp(v.val)
          /\ state'.displayVolume = ExpectedClamp(v.val)
    ]_vars

\* C18: seek(t) leaves currentTime inside [0, duration]: a negative t gives 0 and
\* a t beyond the duration gives the duration.
C18_SeekClamped ==
  [][ \A t \in SeekInputs :
        seek(t) => state'.currentTime = Max(0, Min(state.duration, t))
    ]_vars

\* C20: after setVolume(v) isFadingIn is false, from every state, a fade that was
\* paused half way included.
C20_SetVolumeEndsFade ==
  [][ \A v \in VolumeInputs :
        (~v.nan /\ setVolume(v)) => ~state'.isFadingIn
    ]_vars

\* C23: at most one fade interval runs, and it is the one the session holds, in
\* every state of every interleaving (two calls awaiting the source included);
\* while no ramp runs, every step but a confirmation (play, togglePlay, pause,
\* stop and setVolume, which cancel, included) leaves the timer as it was.
C23_OneRamp ==
  /\ [](intervals <= 1 /\ intervals = (IF fadeIntervalRef.live THEN 1 ELSE 0))
  /\ [][ (~fadeIntervalRef.live /\ Len(playPromises') >= Len(playPromises)) =>
            (intervals' = intervals /\ fadeIntervalRef' = fadeIntervalRef)
       ]_vars

\* a confirmation has just replaced a ramp that had already stepped, while
\* another call still awaits the source
C23_Witness ==
  /\ fadeIntervalRef.live
  /\ fadeIntervalRef.currentStep = 0
  /\ intervals = 1
  /\ audio.volume = VolScale \div FADE_STEPS
  /\ Len(playPromises) = 1

\* how often a handler made the call of this name
Count(seq, name) == Cardinality({i \in 1..Len(seq) : seq[i].name = name})

\* togglePlay() on a loaded session that reports isPlaying: it calls pause()
TogglePauses ==
  /\ state.currentSong # Null
  /\ state.isPlaying
  /\ \E allowed \in BOOLEAN : togglePlay(allowed)

\* C21: the confirmation of play(track) calls onPlay once, with that track; no
\* step but a confirmation calls onPlay (not the call itself, not a denied or
\* rejected start); pause(), called directly or through togglePlay(), calls
\* onPause once.
C21_Callbacks ==
  [][ /\ (/\ Len(playPromises') < Len(playPromises)
          /\ Head(playPromises).kind = "play"
          /\ playConfirmed) =>
           /\ Count(calls', "onPlay") = 1
           /\ \A i \in 1..Len(calls') :
                 calls'[i].name = "onPlay" => calls'[i].arg = Head(playPromises).song
      /\ Count(calls', "onPlay") > 0 =>
           (Len(playPromises') < Len(playPromises) /\ playConfirmed)
      /\ (pause \/ TogglePauses) => Count(calls', "onPause") = 1
    ]_vars

\* onPlay has just been called with track b, which plays without a fade
C21_Witness ==
  /\ calls = <<Call("dispatchEvent", "b"), Call("onPlay", "b")>>
  /\ state.currentSong = "b"
  /\ ~audio.paused
  /\ ~config.fadeInEnabled

\* C22: useAudioPlayer outside an AudioPlayerProvider throws
\* 'useAudioPlayer must be used within an AudioPlayerProvider' and returns no
\* session; inside a provider it returns the provider's session.
C22_OutsideProvider ==
  [][ /\ renderConsumer(FALSE) =>
           /\ consumer'.threw
           /\ consumer'.message = "useAudioPlayer must be used within an AudioPlayerProvider"
           /\ ~consumer'.value.given
      /\ renderConsumer(TRUE) =>
           /\ ~consumer'.threw
           /\ consumer'.value.given
           /\ consumer'.value.session = state
    ]_vars

\* a component outside the provider has just asked for the session while the
\* provider's session plays a track
C22_Witness ==
  /\ consumer.threw
  /\ ~consumer.value.given
  /\ state.currentSong # Null
  /\ state.isPlaying

\* C24: in every reachable state displayVolume is the volume set on the shared
\* source, also between a play() call and its confirmation or denial.
C24_DisplayIsOutput == state.displayVolume = audio.volume

\* C25: isFadingIn is true in exactly the states where a fade interval is
\* scheduled.
C25_FadingIffRamp == state.isFadingIn <=> fadeIntervalRef.live

\* C26: the fade that starts on a confirmation ramps to max(volume, FLOOR) for
\* the volume current at that moment, a setVolume(v) made after the call
\* included, and its last step leaves displayVolume at that value.
C26_TargetAtStart ==
  [][ /\ (Len(playPromises') < Len(playPromises) /\ playConfirmed) =>
           fadeIntervalRef'.targetVolume = ExpectedTarget(state.volume)
      /\ (fadeIntervalRef.live /\ ~fadeIntervalRef'.live /\ fadeTick) =>
           state'.displayVolume = ExpectedTarget(state'.volume)
    ]_vars

\* a track is loaded and paused, and the session reports it
LoadedPaused == state.currentSong # Null /\ ~state.isPlaying /\ audio.paused

\* C27: resuming the loaded, paused track through play(currentTrack) and through
\* togglePlay() is the same transition: no reload, currentTime kept, the source
\* set to 0 (fade) or max(volume, FLOOR) (no fade) and asked to start, and on
\* confirmation the same broadcast, fade and callbacks.
C27_ResumeSame ==
  [][ /\ \A allowed \in BOOLEAN :
           (LoadedPaused /\ (play(state.currentSong, allowed) \/ togglePlay(allowed))) =>
             /\ audio'.src = audio.src
             /\ state'.currentSong = state.currentSong
             /\ state'.currentTime = state.currentTime
             /\ audio'.paused = ~allowed
             /\ audio'.volume = IF config.fadeInEnabled THEN 0
                                 ELSE ExpectedTarget(state.volume)
      /\ (Len(playPromises') < Len(playPromises) /\ playConfirmed) =>
           /\ Names(calls') = IF config.fadeInEnabled
                               THEN <<"dispatchEvent", "fadeInVolume", "onPlay">>
                               ELSE <<"dispatchEvent", "onPlay">>
           /\ config.fadeInEnabled => fadeIntervalRef'.live
    ]_vars

\* C28: play(track) with another id than the current track's sets currentSong =
\* track, the source's locator = track.audioUrl, currentTime = 0 and duration =
\* track.duration (0 when absent); with the current id it leaves the four
\* alone; neither the call nor its later confirmation or rejection changes
\* volume, and the settlement changes none of the four.
C28_PlayFrame ==
  [][ /\ \A song \in Songs, allowed \in BOOLEAN :
           play(song, allowed) =>
             /\ state'.volume = state.volume
             /\ IF state.currentSong # song
                THEN /\ state'.currentSong = song
                     /\ audio'.src = AudioUrl(song)
                     /\ state'.currentTime = 0
                     /\ state'.duration = (IF song = "a" THEN MaxTime ELSE 0)
                ELSE /\ state'.currentSong = state.currentSong
                     /\ audio'.src = audio.src
                     /\ state'.currentTime = state.currentTime
                     /\ state'.duration = state.duration
      /\ (Len(playPromises') < Len(playPromises) /\ (playConfirmed \/ playRejected)) =>
           /\ state'.volume = state.volume
           /\ state'.currentSong = state.currentSong
           /\ audio'.src = audio.src
           /\ state'.currentTime = state.currentTime
           /\ state'.duration = state.duration
    ]_vars

\* track b, which carries no duration, has replaced the playing track a and its
\* start was denied
C28_Witness ==
  /\ state.currentSong = "b"
  /\ audio.src = AudioUrl("b")
  /\ state.currentTime = 0
  /\ state.duration = 0
  /\ audio.paused
  /\ state.isPlaying
  /\ audioEvents = <<>>
  /\ playPromises = <<>>

\* the track a step announces to the page: the one a widget starts, or the one
\* whose start the session's source has just confirmed
Announces(d) ==
  \/ Len(playPromises') < Len(playPromises) /\ Head(playPromises).song = d /\ playConfirmed
  \/ \E w \in Widgets :
       /\ wSong[w] = d
       /\ ~localIsPlaying[w]
       /\ localIsPlaying'[w]
       /\ \E allowed \in BOOLEAN : handlePlayClick(w, allowed)

\* C29: a standalone widget that receives a broadcast for another track than its
\* own pauses its element and reports isPlaying = false, its position and
\* locator and the persisted volume left alone; a widget that shows the
\* announced track (and is not the one starting) is left as it was.
C29_Subscriber ==
  [][ \A d \in Songs :
        Announces(d) =>
          /\ localStorage' = localStorage
          /\ \A u \in Widgets :
               IF wSong[u] # d
               THEN /\ localAudio'[u].paused
                    /\ ~localIsPlaying'[u]
                    /\ localAudio'[u].currentTime = localAudio[u].currentTime
                    /\ localAudio'[u].src = localAudio[u].src
               ELSE (localIsPlaying[u] \/ playConfirmed) =>
                      /\ localAudio'[u] = localAudio[u]
                      /\ localIsPlaying'[u] = localIsPlaying[u]
    ]_vars

\* a widget that had played up to position 1 stays paused there while a widget
\* with another track has just started
C29_Witness ==
  \E u, v \in Widgets :
    /\ wSong[u] # wSong[v]
    /\ localAudio[u].src # ""
    /\ localAudio[u].paused
    /\ ~localIsPlaying[u]
    /\ localAudio[u].currentTime = 1
    /\ localIsPlaying[v]
    /\ ~localAudio[v].paused
    /\ localAudio[v].currentTime = 0

\* C30: the broadcast the session publishes on a confirmation carries the id of
\* the track loaded in its source at that moment, also when two calls awaited
\* the source or the track changed after togglePlay() was called.
C30_BroadcastIsLoaded ==
  [][ \A d \in Songs :
        (/\ Len(playPromises') < Len(playPromises)
         /\ Head(playPromises).song = d
         /\ playConfirmed) =>
          audio.src = AudioUrl(d)
    ]_vars

\* the oldest queued source event is 'ended' and its handler runs
EndedDelivered ==
  /\ audioEvents # <<>>
  /\ Head(audioEvents) = "ended"
  /\ deliverEvent

\* C31: the 'ended' handler sets isPlaying = false and currentTime = 0, calls
\* onEnd once and nothing else, and leaves every other field of the state, the
\* source and the fade alone; 'timeupdate' writes only currentTime and calls
\* onTimeUpdate; 'loadedmetadata' writes only duration and calls nothing.
C31_SourceEvents ==
  [][ /\ EndedDelivered =>
           /\ state' = [state EXCEPT !.isPlaying = FALSE, !.currentTime = 0]
           /\ Names(calls') = <<"onEnd">>
           /\ audio' = audio
           /\ fadeIntervalRef' = fadeIntervalRef
      /\ \A t \in 0..MaxTime :
           handleTimeUpdate(t) =>
             /\ state' = [state EXCEPT !.currentTime = t]
             /\ Names(calls') = <<"onTimeUpdate">>
             /\ audio' = audio
      /\ handleLoadedMetadata =>
           /\ state' = [state EXCEPT !.duration = state'.duration]
           /\ calls' = <<>>
           /\ audio' = audio
    ]_vars

\* track a has ended during its fade: the session reports the stop at position
\* 0 and keeps the track, its length and the volume the fade had reached
C31_Witness ==
  /\ Names(calls) = <<"onEnd">>
  /\ ~state.isPlaying
  /\ state.currentTime = 0
  /\ state.currentSong = "a"
  /\ state.duration = MaxTime
  /\ state.isFadingIn
  /\ state.displayVolume = VolScale \div FADE_STEPS
  /\ state.volume = VolScale

\* C32: togglePlay() without a track changes nothing, asks nothing of the source
\* and publishes nothing; with a track that the session reports as playing it
\* does what pause() does (fade cancelled, source paused, onPause called once,
\* state left to the source's 'pause' event); with a track that is not playing it
\* asks the source to start and leaves the locator, the track and its position
\* as they were.
C32_Toggle ==
  [][ \A allowed \in BOOLEAN :
        togglePlay(allowed) =>
          IF state.currentSong = Null
          THEN /\ UNCHANGED <<state, audio, fadeIntervalRef, intervals, playPromises,
                              audioEvents, localStorage, localAudio, localIsPlaying>>
               /\ calls' = <<>>
          ELSE IF state.isPlaying
               THEN /\ audio'.paused
                    /\ audio'.src = audio.src
                    /\ audio'.volume = audio.volume
                    /\ audioEvents' = IF audio.paused THEN audioEvents
                                      ELSE Append(audioEvents, "pause")
                    /\ ~fadeIntervalRef'.live
                    /\ intervals' = 0
                    /\ Names(calls') = <<"onPause">>
                    /\ UNCHANGED <<state, playPromises, localAudio, localIsPlaying>>
               ELSE /\ audio'.src = audio.src
                    /\ state' = state
                    /\ IF allowed
                       THEN /\ ~audio'.paused
                            /\ Len(playPromises') = Len(playPromises) + 1
                            /\ playPromises'[Len(playPromises')].song = state.currentSong
                       ELSE /\ audio'.paused = audio.paused
                            /\ playPromises' = playPromises
                    /\ calls' = <<>>
                    /\ UNCHANGED <<localAudio, localIsPlaying>>
    ]_vars

\* togglePlay() has just paused track b in the middle of its fade
C32_Witness ==
  /\ history.phase = "paused"
  /\ Names(calls) = <<"onPause">>
  /\ state.currentSong = "b"
  /\ audio.paused
  /\ audio.volume = (2 * VolScale) \div FADE_STEPS
  /\ ~fadeIntervalRef.live
  /\ state.isFadingIn

\* C33: disposal cancels the live fade, pauses the source and releases its
\* locator; after disposal no step (a fade tick, a source callback, the
\* confirmation of a start that was pending) changes the state or leaves a
\* fade interval running.
C33_Disposal ==
  [][ /\ dispose =>
           /\ ~fadeIntervalRef'.live
           /\ intervals' = 0
           /\ audio'.paused
           /\ audio'.src = ""
      /\ disposed =>
           /\ state' = state
           /\ ~fadeIntervalRef'.live
           /\ intervals' = 0
    ]_vars

\* two fractions are the same number (denominators are positive)
SameProgress(p, q) == p.num * q.den = q.num * p.den

\* a step in which the session's seek() is called from a waveform
SeekForwarded == Count(calls', "seek") > 0

ClampedProgress(time, duration) ==
  IF time < 0 THEN Progress(0, duration)
  ELSE IF time > duration THEN Progress(duration, duration)
  ELSE Progress(time, duration)

\* C35: whenever the session's currentTime changes while a waveform shows the
\* current track and has a positive duration, that waveform's cursor is placed
\* at clamp(currentTime / duration, 0, 1), for every currentTime; the waveform
\* of a track that is not the current one is left where it is.
C35_CursorSync ==
  [][ state'.currentTime # state.currentTime =>
        /\ \A v \in Songs :
             IF state.currentSong = v /\ state'.currentSong = v
             THEN waves[v].duration > 0 =>
                    SameProgress(waves'[v].cursor,
                                 ClampedProgress(state'.currentTime, waves[v].duration))
             ELSE (state.currentSong # v /\ state'.currentSong # v) => waves'[v] = waves[v]
        /\ (/\ mini.rendered
            /\ mini.song = state.currentSong
            /\ state'.currentSong = state.currentSong
            /\ mini.duration > 0) =>
             SameProgress(mini'.cursor, ClampedProgress(state'.currentTime, mini.duration))
    ]_vars

\* C36: the MiniPlayer renders in exactly the states where currentSong is not
\* null; a click on its close control calls stop() and then onClose, and leaves
\* the session in the empty state (no track, not playing, position and
\* duration 0, no fade) and the MiniPlayer not rendered.
C36_MiniPlayer ==
  /\ [](mini.rendered <=> state.currentSong # Null)
  /\ [][ handleClose =>
            /\ Names(calls') = <<"stop", "onClose">>
            /\ state'.currentSong = Null
            /\ ~state'.isPlaying
            /\ state'.currentTime = 0
            /\ state'.duration = 0
            /\ ~state'.isFadingIn
            /\ audio'.src = ""
            /\ audio'.paused
            /\ ~mini'.rendered
       ]_vars

\* the MiniPlayer that showed track b has just been closed
C36_Witness ==
  /\ Names(calls) = <<"stop", "onClose">>
  /\ ~mini.rendered
  /\ mini.song = "b"
  /\ state.currentSong = Null
  /\ audio.src = ""

\* C37: a click on the MiniPlayer's mute control while volume > 0 leaves
\* volume = displayVolume = 0 and never raises the volume, in every state, a
\* fade-in in progress included.
C37_Mute ==
  [][ (state.volume > 0 /\ clickMute) =>
        /\ state'.volume = 0
        /\ state'.displayVolume = 0
        /\ audio'.volume = 0
    ]_vars

\* 15% of the full volume
FirstPlayCap == (15 * VolScale) \div 100

\* C38: the first play() after construction, with persistence enabled, "1" in
\* the store and fade-in disabled, puts at most 0.15 on the source and leaves
\* displayVolume at most 0.15.
C38_FirstPlayCap ==
  [][ \A song \in Songs, allowed \in BOOLEAN :
        (/\ history.phase = "mounted"
         /\ config.persistVolume
         /\ ~config.fadeInEnabled
         /\ GetItem(localStorage) = "1"
         /\ play(song, allowed)) =>
          /\ audio'.volume <= FirstPlayCap
          /\ state'.displayVolume <= FirstPlayCap
    ]_vars

\* the observer's callback is called with a batch that starts with an
\* intersecting entry
IntersectingNotified ==
  /\ lazy.observer.live
  /\ lazy.observer.entries # <<>>
  /\ lazy.observer.entries[1]
  /\ notify

\* a callback of an earlier effect run is called with such a batch
IntersectingStaleNotified ==
  \E entries \in lazy.stale : entries[1] /\ staleNotify(entries)

MaxMinutes == (2 * 7325 + 1) \div 120

\* seconds zero-padded to two digits
TwoDigits(sec) == IF sec < 10 THEN "0" \o ToString(sec) ELSE ToString(sec)

\* C40: for a positive finite number of seconds s, the text formatTime(s) a
\* rendered component shows is m, a colon
\* and sec in two digits, where 60 m + sec <= s < 60 m + sec + 1 and
\* 0 <= sec <= 59 (m the total minutes, beyond 59 too); for 0, a negative
\* number and NaN it is "0:00".
C40_FormatTime ==
  LET s == label.seconds
  IN label.text # "" =>
     /\ (s.kind = "finite" /\ s.halves > 0) =>
          \E m \in 0..MaxMinutes, sec \in 0..59 :
            /\ 2 * (60 * m + sec) <= s.halves
            /\ s.halves < 2 * (60 * m + sec + 1)
            /\ label.text = ToString(m) \o ":" \o TwoDigits(sec)
     /\ (s.kind = "nan" \/ s.kind = "-inf" \/ (s.kind = "finite" /\ s.halves <= 0)) =>
          label.text = "0:00"

\* 3661.5 seconds are shown as 61 minutes and one second
C40_Witness ==
  /\ label.seconds = Halves(2 * 3661 + 1)
  /\ label.text = "61:01"
====
